---- MODULE Spec2Model ----
(***************************************************************************)
(* Value-level model of src/models.py: WorldModel.preprocess and the       *)
(* behaviour training call ImagBehavior._train with the state it carries   *)
(* across calls (live critic, slow critic, slow-target counter, reward     *)
(* EMA scale).                                                             *)
(*                                                                         *)
(* Tensors are sequences: a (time, batch) tensor is a sequence over time   *)
(* of sequences over the flattened batch.  Real numbers are fixed-point    *)
(* integers: a reward or value v is stored as v * Unit, and fractions      *)
(* (discount, lambda, slow_target_fraction) are records [n, d], so that    *)
(* the lambda-return and the cumulative product are exact.  Networks are   *)
(* black boxes of the source; each is given one concrete function here.    *)
(* Gradients are not modelled: detach() is the identity on values.         *)
(***************************************************************************)
EXTENDS Integers, Sequences, FiniteSets, TLC

\* ---------------------------------------------------------------- bounds
MaxCalls == 3
MaxHorizon == 3
MaxParam == 1

\* ------------------------------------------------------- numeric helpers
Unit == 4 ^ (MaxHorizon + 1)

Frac(n, d) == [n |-> n, d |-> d]
Mul(x, f) == (x * f.n) \div f.d
Comp(f) == [n |-> f.d - f.n, d |-> f.d]
IsOne(f) == f.n = f.d

Max2(a, b) == IF a >= b THEN a ELSE b
Min2(a, b) == IF a <= b THEN a ELSE b

\* the tensor (sequence) with the entries of the function f over 1..n
Tensor(f) == SubSeq(f, 1, Len(f))

\* s[:-1]
DropLast(s) == SubSeq(s, 1, Len(s) - 1)
\* s[-1]
Last(s) == s[Len(s)]

None == <<>>
Absent == -1

\* the exception of "raise NotImplemented(...)": NotImplemented is a constant,
\* not an exception class, so calling it is a TypeError
RaiseNotImplemented == "TypeError"

\* ------------------------------------------------ black-box collaborators
\* dynamics.get_feat: concatenation of the stochastic and deterministic part
get_feat_1(stoch, deter) == <<stoch, deter>>
get_feat(state) ==
  Tensor([n \in 1..Len(state.stoch) |-> get_feat_1(state.stoch[n], state.deter[n])])

\* dynamics.img_step: the prior transition of one batch element; eps is the
\* draw used when sample is set, the mode of the prior is used otherwise
img_step_1(stoch, deter, action, sample, eps) ==
  LET d == (deter + stoch + action + 1) % 3
  IN  [stoch |-> IF sample THEN eps ELSE d % 2, deter |-> d]

img_step(state, action, sample, eps) ==
  LET nxt == Tensor([n \in 1..Len(action) |->
                img_step_1(state.stoch[n], state.deter[n], action[n], sample, eps[n])])
  IN  [stoch |-> Tensor([n \in 1..Len(action) |-> nxt[n].stoch]),
       deter |-> Tensor([n \in 1..Len(action) |-> nxt[n].deter])]

\* the actor head: mode and support of the action distribution at a feature
ActorMode(feat) == 2 * ((feat[1] + feat[2]) % 2)
ActorSupport(feat) == {ActorMode(feat), ActorMode(feat) + 1}
ActorEntropy(feat) == (1 + feat[1]) * Unit

\* dynamics.get_dist(state).entropy()
StateEntropy(stoch, deter) == (1 + (deter % 2)) * Unit

\* symlog and symexp (lines 13-18) are transcendental: a number in symlog space
\* is kept as the term <<"symlog", x>>, which symexp takes back to x
symlog(x) == <<"symlog", x>>
symexp(y) == IF y[1] = "symlog" THEN y[2] ELSE <<"symexp", y>>

\* the critic head with parameter theta: mode of its output at a feature; the
\* critic is trained on symlog targets when critic_trans is "symlog"
CriticMode(c, theta, feat) ==
  LET v == theta + feat[2] * Unit
  IN  IF c.critic_trans = "symlog" THEN symlog(v) ELSE v

\* heads["discount"](feat).mean
DiscountHeadMean(feat) == Frac(feat[2], 2)

\* the objective (reward function) handed to _train: the reward head, which
\* predicts symlog rewards when reward_trans is "symlog"
Objective(c, feat, stoch, deter, action) ==
  LET r == ((deter + action) % 3) * Unit
  IN  IF c.reward_trans = "symlog" THEN symlog(r) ELSE r

\* ---------------------------------------------------------------- state
VARIABLES
  cfg,          \* self._config
  value,        \* parameters of self.value (the live critic)
  slow_value,   \* parameters of self._slow_value, Absent when not created
  updates,      \* self._updates, Absent when not created
  reward_ema,   \* self.reward_ema.scale, Absent when not created
  loop,         \* the training loop: the calls it makes, the starts it hands over
  calls,        \* number of calls begun by the training loop
  returned,     \* number of _train calls that returned normally
  pc,           \* position inside _train, "idle" between calls
  err,          \* exception that ended the last call, "none" otherwise
  repeats,      \* argument repeats of the current call
  start,        \* argument start of the current call
  imag_feat, imag_state, imag_action,
  reward, actor_ent, state_ent,
  target, weights,
  actor_target_in,  \* the target handed to _compute_actor_loss
  norm_target,      \* the target returned by reward_ema
  tvalue, tdiscount,\* value and discount of the last _compute_target
  metrics,
  entry,        \* counter, slow critic and EMA scale as the current call found them
  ema_calls,    \* number of RewardEMA.__call__ in the current call
  slow_calls,   \* number of writes of self._updates in the current call
  batch,        \* the caller's batch handed to preprocess
  obs           \* what preprocess returned

carried == <<value, slow_value, updates, reward_ema>>
locals == <<repeats, start, imag_feat, imag_state, imag_action, reward, actor_ent,
            state_ent, target, weights, actor_target_in, norm_target, tvalue,
            tdiscount, metrics>>
counters == <<ema_calls, slow_calls>>
pre == <<batch, obs>>
vars == <<cfg, carried, entry, loop, calls, returned, pc, err, locals, counters, pre>>


\* ------------------------------------------------------------- RewardEMA
alpha == Frac(1, 100)
range == <<Frac(5, 100), Frac(95, 100)>>
\* 1.0 in the fixed-point unit of the scale: Unit for the value, range's and
\* alpha's denominators for the interpolation and the decay
ScaleOne == Unit * range[1].d * alpha.d

Flatten(x) ==
  LET N == IF Len(x) = 0 THEN 0 ELSE Len(x[1])
  IN  Tensor([i \in 1..(Len(x) * N) |-> x[((i - 1) \div N) + 1][((i - 1) % N) + 1]])

\* torch.quantile with linear interpolation, in units of 1/q.d
Quantile(flat_x, q) ==
  LET sorted == SortSeq(flat_x, <)
      pos == q.n * (Len(sorted) - 1)
      lo == pos \div q.d
      hi == Min2(lo + 1, Len(sorted) - 1)
  IN  sorted[lo + 1] * q.d + (pos % q.d) * (sorted[hi + 1] - sorted[lo + 1])

\* RewardEMA.__call__: the scale it leaves and x / clip(scale, min=1.0), each
\* entry kept as the fraction of x over the clipped scale (ScaleOne is 1.0)
RewardEMA_call(self_scale, x) ==
  LET flat_x == Flatten(x)
      scale == Quantile(flat_x, range[2]) - Quantile(flat_x, range[1])
      new_scale == Mul(scale * alpha.d, alpha) + Mul(self_scale, Comp(alpha))
  IN  [scale |-> new_scale,
       out |-> Tensor([t \in 1..Len(x) |-> Tensor([n \in 1..Len(x[t]) |->
                  [n |-> x[t][n], d |-> Max2(new_scale, ScaleOne)]])])]

\* ------------------------------------------------------------- tools
RECURSIVE return_loop(_, _, _, _, _, _)
return_loop(rew, val, pcont, lambda_, agg, t) ==
  IF t = 0 THEN <<>>
  ELSE LET ret == Tensor([n \in 1..Len(rew[t]) |->
                    rew[t][n] + Mul(Mul(val[t + 1][n], Comp(lambda_)) + Mul(agg[n], lambda_),
                                    pcont[t][n])])
       IN  <<ret>> \o return_loop(rew, val, pcont, lambda_, ret, t - 1)

\* tools.lambda_return along axis 0: from the last step to the first,
\* return[t] = reward[t] + discount[t] * ((1 - lambda) * value[t+1] + lambda * return[t+1])
\* where value[T+1] and return[T+1] are the bootstrap; the loop collects the
\* returns last step first and they come back flipped into time order
Reverse(s) == Tensor([i \in 1..Len(s) |-> s[Len(s) + 1 - i]])
lambda_return(rew, val, pcont, bootstrap, lambda_) ==
  Reverse(return_loop(rew, Append(val, bootstrap), pcont, lambda_, bootstrap, Len(rew)))

\* torch.arange(horizon)
arange(horizon) == Tensor([i \in 1..horizon |-> i - 1])

\* torch.cumprod along axis 0 of a tensor of fractions, as fixed-point numbers
RECURSIVE cumprod_loop(_, _, _)
cumprod_loop(x, acc, t) ==
  IF t > Len(x) THEN <<>>
  ELSE LET w == Tensor([n \in 1..Len(x[t]) |-> Mul(acc[n], x[t][n])])
       IN  <<w>> \o cumprod_loop(x, w, t + 1)

cumprod(x) ==
  IF Len(x) = 0 THEN <<>>
  ELSE cumprod_loop(x, Tensor([n \in 1..Len(x[1]) |-> Unit]), 1)


\* ------------------------------------------------------------ ImagBehavior
SlowEnabled(c) == c.slow_value_target \/ c.slow_actor_target

\* the mix with the roles of the live and the slow parameters exchanged
MixParam_Swapped(mix, s, d) == Mul(d, mix) + Mul(s, Comp(mix))

\* d.data = mix * s.data + (1 - mix) * d.data
MixParam(mix, s, d) == Mul(s, mix) + Mul(d, Comp(mix))

\* the mixing condition tested on the counter after its increment
MixDue_AfterIncrement(c, u) == (u + 1) % c.slow_target_update = 0

\* the mixing condition of a call that starts with counter u
MixDue(c, u) == u % c.slow_target_update = 0

\* _update_slow_target with the increment inside the mixing branch
update_slow_target_CountOnMix(c, v, sv, u) ==
  IF SlowEnabled(c) /\ MixDue(c, u)
  THEN [slow_value |-> MixParam(c.slow_target_fraction, v, sv),
        updates |-> u + 1,
        wrote |-> 1]
  ELSE [slow_value |-> sv, updates |-> u, wrote |-> 0]

\* _update_slow_target: the slow parameters and the counter it leaves
update_slow_target(c, v, sv, u) ==
  IF SlowEnabled(c)
  THEN [slow_value |-> IF MixDue(c, u)
                       THEN MixParam(c.slow_target_fraction, v, sv) ELSE sv,
        updates |-> u + 1,
        wrote |-> 1]
  ELSE [slow_value |-> sv, updates |-> u, wrote |-> 0]

\* x.reshape([-1] + list(x.shape[2:])) of a (batch, time) tensor
flatten(x) == Flatten(x)

\* the scanned function of _imagine (lines 411-417); ch[i + 1][n] holds the
\* draws of step i for batch element n
step(c, ch, prev, i) ==
  LET state == prev[1]
      feat == get_feat(state)
      inp == feat
      N == Len(feat)
      action == Tensor([n \in 1..N |-> ActorMode(inp[n]) + ch[i + 1][n].a])
      succ == img_step(state, action, c.imag_sample,
                       Tensor([n \in 1..N |-> ch[i + 1][n].eps]))
  IN  <<succ, feat, action>>

\* tools.static_scan over step for a carry (state dict, tensor, tensor): one
\* output per input, stacked along a new leading axis
RECURSIVE scan_loop(_, _, _, _, _)
scan_loop(c, ch, inputs, last, outputs) ==
  IF inputs = <<>> THEN outputs
  ELSE LET nxt == step(c, ch, last, Head(inputs))
       IN  scan_loop(c, ch, Tail(inputs), nxt, Append(outputs, nxt))

static_scan(c, ch, inputs, init) ==
  LET outs == scan_loop(c, ch, inputs, init, <<>>)
  IN  <<[k \in DOMAIN init[1] |-> Tensor([i \in 1..Len(outs) |-> outs[i][1][k]])],
        Tensor([i \in 1..Len(outs) |-> outs[i][2]]),
        Tensor([i \in 1..Len(outs) |-> outs[i][3]])>>

\* the successors as static_scan stacks them, without the shift
ShiftStates_NoShift(start_k, succ_k) == succ_k

\* the shifted state sequence of line 424 for one key of the state dict
ShiftStates(start_k, succ_k) == <<start_k>> \o DropLast(succ_k)

\* _imagine; ch[t][n] holds the draws of step t for batch element n
imagine(c, st, horizon, rp, ch) ==
  IF rp THEN [err |-> RaiseNotImplemented, feats |-> None, states |-> None, actions |-> None]
  ELSE
    LET flat == [k \in DOMAIN st |-> flatten(st[k])]
        N == Len(flat.stoch)
        feat0 == Tensor([n \in 1..N |->
                           <<0 * get_feat(flat)[n][1], 0 * get_feat(flat)[n][2]>>])
        action0 == Tensor([n \in 1..N |-> ActorMode(feat0[n])])
        out == static_scan(c, ch, arange(horizon), <<flat, feat0, action0>>)
        states == [k \in DOMAIN out[1] |-> ShiftStates(flat[k], out[1][k])]
    IN  [err |-> "none", feats |-> out[2], states |-> states, actions |-> out[3]]

\* the discount of _compute_target (lines 433-437)
Discount(c, imag_st, rew) ==
  IF c.pred_discount
  THEN Tensor([t \in 1..Len(imag_st.stoch) |->
          LET inp == get_feat([stoch |-> imag_st.stoch[t], deter |-> imag_st.deter[t]])
          IN  Tensor([n \in 1..Len(inp) |-> DiscountHeadMean(inp[n])])])
  ELSE Tensor([t \in 1..Len(rew) |-> Tensor([n \in 1..Len(rew[t]) |-> c.discount])])

\* reward += coef * ent (in place) when the bonus is folded into the return
AddEntropy(c, coef, rew, ent) ==
  IF c.future_entropy /\ coef > 0
  THEN Tensor([t \in 1..Len(rew) |->
                 Tensor([n \in 1..Len(rew[t]) |-> rew[t][n] + coef * ent[t][n]])])
  ELSE rew

\* the cumulative product of the discounts themselves, without the shift
Weights_NoShift(discount) == cumprod(discount)

\* the loss weights of lines 457-459
Weights(discount) ==
  cumprod(<<Tensor([n \in 1..Len(discount[1]) |-> Frac(1, 1)])>> \o DropLast(discount))

\* the lambda-return over the rewards one step late (reward[1:])
Target_LateReward(c, rew, val, discount) ==
  lambda_return(Tail(rew), DropLast(val), DropLast(discount), Last(val),
                c.discount_lambda)

\* the lambda-return call of lines 449-456
Target(c, rew, val, discount) ==
  lambda_return(DropLast(rew), DropLast(val), DropLast(discount), Last(val),
                c.discount_lambda)

\* _compute_target; reward is the caller's tensor as the call leaves it
compute_target(c, v, sv, feat, imag_st, rew, aent, sent, slow) ==
  LET discount == Discount(c, imag_st, rew)
      r1 == AddEntropy(c, c.actor_entropy, rew, aent)
      r2 == AddEntropy(c, c.actor_state_entropy, r1, sent)
      head == Tensor([t \in 1..Len(feat) |-> Tensor([n \in 1..Len(feat[t]) |->
                 CriticMode(c, IF slow THEN sv ELSE v, feat[t][n])])])
      val == IF c.critic_trans = "symlog"
             THEN Tensor([t \in 1..Len(head) |->
                            Tensor([n \in 1..Len(head[t]) |-> symexp(head[t][n])])])
             ELSE head
  IN  [target |-> Target(c, r2, val, discount),
       weights |-> Weights(discount),
       reward |-> r2,
       value |-> val,
       discount |-> discount]

GradientModes == {"dynamics", "reinforce", "both"}

\* _compute_actor_loss: the exception it ends with, the reward-EMA scale it
\* leaves and the (rescaled) target of the actor objective
compute_actor_loss(c, scale, tgt) ==
  IF Len(tgt) = 0
  THEN [err |-> "RuntimeError", scale |-> scale, target |-> tgt, ema |-> 0]
  ELSE
    LET e == IF c.reward_EMA THEN RewardEMA_call(scale, tgt)
             ELSE [scale |-> scale, out |-> tgt]
    IN  [err |-> IF c.imag_gradient \in GradientModes THEN "none"
                 ELSE "NotImplementedError",
         scale |-> e.scale,
         target |-> e.out,
         ema |-> IF c.reward_EMA THEN 1 ELSE 0]


\* torch.tanh, kept as a term
tanh(x) == <<"tanh", x>>

\* x / 255.0 - 0.5, kept as a fraction
normalize(x) == Frac(2 * x - 255, 510)

\* an elementwise function of torch applied to one entry
Elementwise(op, v) ==
  CASE op = "symlog" -> symlog(v)
    [] op = "symexp" -> symexp(v)
    [] op = "tanh" -> tanh(v)
    [] op = "normalize" -> normalize(v)
    [] op = "identity" -> v

\* an elementwise function applied to a vector and to a (time, batch) tensor
MapSeq(op, x) == Tensor([i \in 1..Len(x) |-> Elementwise(op, x[i])])
Map2(op, x) == Tensor([t \in 1..Len(x) |-> MapSeq(op, x[t])])

RECURSIVE SumSeq(_)
SumSeq(s) == IF Len(s) = 0 THEN 0 ELSE s[1] + SumSeq(Tail(s))
\* torch.mean, kept as the fraction sum / count
Mean(x) == Frac(SumSeq(Flatten(x)), Len(Flatten(x)))

\* ----------------------------------------------------------------- inputs
\* start states handed to _train: a state dict of (batch, time) tensors
StartOne == [stoch |-> <<<<1>>>>, deter |-> <<<<0>>>>]
StartRow == [stoch |-> <<<<0, 1>>>>, deter |-> <<<<0, 2>>>>]

\* the draws of one rollout: the sampled action (offset from the mode) and
\* the draw of the prior, per step and batch element
ChoiceSet(c) == [a : {0, 1}, eps : IF c.imag_sample THEN {0, 1} ELSE {0}]
Draws(c, N) == [1..c.imag_horizon -> [1..N -> ChoiceSet(c)]]

ParamSet == {p * Unit : p \in 0..MaxParam}

\* ---------------------------------------------------------------- _train
ClearLocals ==
  /\ imag_feat' = None /\ imag_state' = None /\ imag_action' = None
  /\ reward' = None /\ actor_ent' = None /\ state_ent' = None
  /\ target' = None /\ weights' = None /\ actor_target_in' = None
  /\ norm_target' = None /\ tvalue' = None /\ tdiscount' = None
  /\ metrics' = <<>>

\* an exception leaves _train: the locals are dropped, nothing is returned
Raise(e) ==
  /\ pc' = "idle"
  /\ err' = e
  /\ ClearLocals
  /\ UNCHANGED <<repeats, start>>

\* lines 328-330: the call begins with the slow-target maintenance
TrainEnter ==
  /\ pc = "idle"
  /\ calls < loop.steps
  /\ \E st \in loop.starts, rp \in BOOLEAN :
       /\ start' = st
       /\ repeats' = rp
  /\ LET u == update_slow_target(cfg, value, slow_value, updates)
     IN  /\ slow_value' = u.slow_value
         /\ updates' = u.updates
         /\ slow_calls' = u.wrote
  /\ ema_calls' = 0
  /\ calls' = calls + 1
  /\ err' = "none"
  /\ pc' = "imagine"
  /\ ClearLocals
  /\ entry' = [updates |-> updates, slow_value |-> slow_value, reward_ema |-> reward_ema]
  /\ UNCHANGED <<cfg, loop, returned, value, reward_ema, pre>>

\* lines 334-336
Imagine ==
  /\ pc = "imagine"
  /\ IF repeats
     THEN /\ Raise(imagine(cfg, start, cfg.imag_horizon, repeats, None).err)
     ELSE \E ch \in Draws(cfg, Len(flatten(start.stoch))) :
            LET r == imagine(cfg, start, cfg.imag_horizon, repeats, ch)
            IN  /\ imag_feat' = r.feats
                /\ imag_state' = r.states
                /\ imag_action' = r.actions
                /\ pc' = "reward"
                /\ UNCHANGED <<err, repeats, start, reward, actor_ent, state_ent, target,
                               weights, actor_target_in, norm_target, tvalue, tdiscount,
                               metrics>>
  /\ UNCHANGED <<cfg, entry, carried, loop, calls, returned, counters, pre>>

\* lines 337-342
ComputeReward ==
  /\ pc = "reward"
  /\ LET r == Tensor([t \in 1..Len(imag_feat) |-> Tensor([n \in 1..Len(imag_feat[t]) |->
                 Objective(cfg, imag_feat[t][n], imag_state.stoch[t][n],
                           imag_state.deter[t][n], imag_action[t][n])])])
     IN  reward' = IF cfg.reward_trans = "symlog" THEN Map2("symexp", r) ELSE r
  /\ actor_ent' = Tensor([t \in 1..Len(imag_feat) |->
                     Tensor([n \in 1..Len(imag_feat[t]) |-> ActorEntropy(imag_feat[t][n])])])
  /\ state_ent' = Tensor([t \in 1..Len(imag_feat) |->
                     Tensor([n \in 1..Len(imag_feat[t]) |->
                       StateEntropy(imag_state.stoch[t][n], imag_state.deter[t][n])])])
  /\ pc' = "target_actor"
  /\ UNCHANGED <<cfg, entry, carried, loop, calls, returned, err, repeats, start, imag_feat, imag_state,
                 imag_action, target, weights, actor_target_in, norm_target, tvalue,
                 tdiscount, metrics, counters, pre>>

\* a call of _compute_target from _train: target and weights are bound to its
\* results, and reward is the tensor the call updated in place
CallComputeTarget(slow) ==
  LET r == compute_target(cfg, value, slow_value, imag_feat, imag_state, reward,
                          actor_ent, state_ent, slow)
  IN  /\ target' = r.target
      /\ weights' = r.weights
      /\ reward' = r.reward
      /\ tvalue' = r.value
      /\ tdiscount' = r.discount

\* lines 345-353
ComputeTargetActor ==
  /\ pc = "target_actor"
  /\ CallComputeTarget(cfg.slow_actor_target)
  /\ pc' = "actor_loss"
  /\ UNCHANGED <<cfg, entry, carried, loop, calls, returned, err, repeats, start, imag_feat, imag_state,
                 imag_action, actor_ent, state_ent, actor_target_in, norm_target,
                 metrics, counters, pre>>

\* lines 354-363
ComputeActorLoss ==
  /\ pc = "actor_loss"
  /\ LET r == compute_actor_loss(cfg, reward_ema, target)
     IN  /\ reward_ema' = r.scale
         /\ ema_calls' = ema_calls + r.ema
         /\ IF r.err # "none"
            THEN Raise(r.err)
            ELSE /\ actor_target_in' = target
                 /\ norm_target' = r.target
                 /\ metrics' = IF cfg.reward_EMA
                               THEN metrics @@ ("EMA_scale" :> r.scale) ELSE metrics
                 /\ pc' = "target_value"
                 /\ UNCHANGED <<err, repeats, start, imag_feat, imag_state, imag_action,
                                reward, actor_ent, state_ent, target, weights, tvalue,
                                tdiscount>>
  /\ UNCHANGED <<cfg, entry, loop, value, slow_value, updates, calls, returned, slow_calls, pre>>

\* lines 364-374
ComputeTargetValue ==
  /\ pc = "target_value"
  /\ IF cfg.slow_value_target # cfg.slow_actor_target
     THEN CallComputeTarget(cfg.slow_value_target)
     ELSE UNCHANGED <<target, weights, reward, tvalue, tdiscount>>
  /\ pc' = "value_loss"
  /\ UNCHANGED <<cfg, entry, carried, loop, calls, returned, err, repeats, start, imag_feat, imag_state,
                 imag_action, actor_ent, state_ent, actor_target_in, norm_target,
                 metrics, counters, pre>>

\* lines 376-398: the critic loss and the metrics
ComputeValueLoss ==
  /\ pc = "value_loss"
  /\ target' = IF cfg.critic_trans = "symlog" THEN Map2("symlog", target) ELSE target
  /\ metrics' = metrics @@ ("reward_mean" :> Mean(reward))
  /\ pc' = "actor_opt"
  /\ UNCHANGED <<cfg, entry, carried, loop, calls, returned, err, repeats, start, imag_feat, imag_state,
                 imag_action, reward, actor_ent, state_ent, weights, actor_target_in,
                 norm_target, tvalue, tdiscount, counters, pre>>

\* line 400: the actor's parameters are not part of the state of this model
ActorOpt ==
  /\ pc = "actor_opt"
  /\ pc' = "value_opt"
  /\ UNCHANGED <<cfg, entry, carried, loop, calls, returned, err, locals, counters, pre>>

\* an optimizer step when the slow critic shares the live critic's parameters
ValueOptStep_Shared(v, sv, nv) == [value |-> nv, slow_value |-> nv]

\* the parameters an optimizer step over self.value.parameters() may leave:
\* value is the live critic, slow_value the deep copy of line 296
ValueOptStep(v, sv, nv) == [value |-> nv, slow_value |-> sv]

\* line 401
ValueOpt ==
  /\ pc = "value_opt"
  /\ \E nv \in ParamSet :
       LET r == ValueOptStep(value, slow_value, nv)
       IN  /\ value' = r.value
           /\ slow_value' = r.slow_value
  /\ pc' = "done"
  /\ UNCHANGED <<cfg, entry, loop, updates, reward_ema, calls, returned, err, locals, counters, pre>>

\* line 402: imag_feat, imag_state, imag_action, weights, metrics go to the
\* caller and the frame is dropped
Return ==
  /\ pc = "done"
  /\ pc' = "idle"
  /\ returned' = returned + 1
  /\ ClearLocals
  /\ UNCHANGED <<cfg, entry, carried, loop, calls, err, repeats, start, counters, pre>>

TrainNext ==
  \/ TrainEnter
  \/ Imagine
  \/ ComputeReward
  \/ ComputeTargetActor
  \/ ComputeActorLoss
  \/ ComputeTargetValue
  \/ ComputeValueLoss
  \/ ActorOpt
  \/ ValueOpt
  \/ Return


\* ------------------------------------------------------------ WorldModel
ObsTransforms == {"normalize", "identity", "symlog"}
RewardTransforms == {"tanh", "identity", "symlog"}

\* x.unsqueeze(-1) of a (batch, time) tensor, one batch row
unsqueeze(x) == Tensor([i \in 1..Len(x) |-> <<x[i]>>])

\* the scaling of line 218 on the array it is given
ScaleDiscount(c, d) == Tensor([i \in 1..Len(d) |-> Mul(d[i], c.discount)])

\* the caller's array after "obs['discount'] *= config.discount": obs is a
\* shallow copy, so the array is the caller's and is scaled in place
CallerDiscount(c, d) == ScaleDiscount(c, d)

\* preprocess: the exception it ends with, the batch it returns and the
\* caller's batch as the call leaves it
preprocess(c, b) ==
  IF c.obs_trans \notin ObsTransforms
  THEN [err |-> RaiseNotImplemented, obs |-> None, batch |-> b]
  ELSE IF c.reward_trans \notin RewardTransforms
  THEN [err |-> RaiseNotImplemented, obs |-> None, batch |-> b]
  ELSE
    LET image == CASE c.obs_trans = "normalize" -> MapSeq("normalize", b.image)
                   [] c.obs_trans = "identity" -> MapSeq("identity", b.image)
                   [] c.obs_trans = "symlog" -> MapSeq("symlog", b.image)
        rew == CASE c.reward_trans = "tanh" -> unsqueeze(MapSeq("tanh", b.reward))
                 [] c.reward_trans = "identity" -> unsqueeze(MapSeq("identity", b.reward))
                 [] c.reward_trans = "symlog" -> unsqueeze(MapSeq("symlog", b.reward))
        o1 == [k \in DOMAIN b |->
                 IF k = "image" THEN image ELSE IF k = "reward" THEN rew ELSE b[k]]
    IN  IF "discount" \in DOMAIN b
        THEN [err |-> "none",
              obs |-> [o1 EXCEPT !["discount"] = unsqueeze(ScaleDiscount(c, b.discount))],
              batch |-> [b EXCEPT !["discount"] = CallerDiscount(c, b.discount)]]
        ELSE [err |-> "none", obs |-> o1, batch |-> b]

\* a call of preprocess on the caller's batch
CallPreprocess(data) ==
  /\ calls < loop.steps
  /\ pc = "idle"
  /\ LET r == preprocess(cfg, data)
     IN  /\ err' = r.err
         /\ obs' = r.obs
         /\ batch' = r.batch
  /\ calls' = calls + 1
  /\ UNCHANGED <<cfg, entry, carried, loop, returned, pc, locals, counters>>

\* line 147: WorldModel._train preprocesses the batch it is given
WMTrainPreprocess == CallPreprocess(batch)

\* line 225: video_pred preprocesses the batch it is given
VideoPredPreprocess == CallPreprocess(batch)

PreNext == WMTrainPreprocess \/ VideoPredPreprocess

\* ------------------------------------------------------- configurations
Fractions == {Frac(0, 1), Frac(1, 2), Frac(1, 1)}

BaseCfg ==
  [slow_value_target |-> TRUE, slow_actor_target |-> TRUE,
   slow_target_update |-> 1, slow_target_fraction |-> Frac(1, 1),
   reward_EMA |-> FALSE, imag_gradient |-> "dynamics",
   imag_horizon |-> 2, imag_sample |-> FALSE,
   pred_discount |-> FALSE, discount |-> Frac(1, 2), discount_lambda |-> Frac(1, 2),
   future_entropy |-> FALSE, actor_entropy |-> 1, actor_state_entropy |-> 0,
   critic_trans |-> "symlog", reward_trans |-> "symlog", obs_trans |-> "normalize"]

SlowCfgs ==
  {[svt |-> FALSE, sat |-> FALSE, k |-> 1, f |-> Frac(1, 1)]}
  \cup [svt : BOOLEAN, sat : {TRUE}, k : {1, 2}, f : Fractions]
  \cup [svt : {TRUE}, sat : {FALSE}, k : {1, 2}, f : Fractions]

\* runs about the slow target: every slow-target configuration, MaxCalls calls
SlowRuns ==
  {[cfg |-> [BaseCfg EXCEPT !.slow_value_target = s.svt, !.slow_actor_target = s.sat,
                            !.slow_target_update = s.k, !.slow_target_fraction = s.f],
    loop |-> [steps |-> MaxCalls, starts |-> {StartOne}]] : s \in SlowCfgs}

\* runs about the reward EMA: two calls of a three-step rollout
EmaRuns ==
  {[cfg |-> [BaseCfg EXCEPT !.slow_value_target = svt, !.slow_actor_target = sat,
                            !.slow_target_fraction = Frac(1, 2),
                            !.reward_EMA = e, !.imag_gradient = g, !.imag_horizon = 3],
    loop |-> [steps |-> 2, starts |-> {StartOne}]] :
     svt \in BOOLEAN, sat \in BOOLEAN, e \in BOOLEAN, g \in {"dynamics", "other"}}

CarriedRuns == SlowRuns \cup EmaRuns

DiscountCfgs ==
  {[pred |-> TRUE, d |-> Frac(1, 1)], [pred |-> FALSE, d |-> Frac(1, 2)],
   [pred |-> FALSE, d |-> Frac(1, 1)]}

\* runs about one rollout and its target: every horizon, discount and lambda
RolloutRuns ==
  {[cfg |-> [BaseCfg EXCEPT !.imag_horizon = h, !.imag_sample = smp,
                            !.pred_discount = d.pred, !.discount = d.d,
                            !.discount_lambda = l,
                            !.imag_gradient = IF smp THEN "reinforce" ELSE "both",
                            !.critic_trans = IF smp THEN "symlog" ELSE "identity",
                            !.reward_trans = IF smp THEN "identity" ELSE "symlog"],
    loop |-> [steps |-> 1, starts |-> IF smp THEN {StartOne} ELSE {StartOne, StartRow}]] :
     h \in 1..MaxHorizon, smp \in BOOLEAN, d \in DiscountCfgs, l \in Fractions}

EntropyCfgs ==
  {[fe |-> FALSE, ae |-> 1, ase |-> 0], [fe |-> TRUE, ae |-> 1, ase |-> 0],
   [fe |-> TRUE, ae |-> 0, ase |-> 1], [fe |-> TRUE, ae |-> 2, ase |-> 1],
   [fe |-> TRUE, ae |-> 0, ase |-> 0]}

\* runs about the entropy bonus: every pair of slow-target flags
EntropyRuns ==
  {[cfg |-> [BaseCfg EXCEPT !.slow_value_target = svt, !.slow_actor_target = sat,
                            !.imag_horizon = 3,
                            !.future_entropy = e.fe, !.actor_entropy = e.ae,
                            !.actor_state_entropy = e.ase],
    loop |-> [steps |-> 1, starts |-> {StartOne, StartRow}]] :
     svt \in BOOLEAN, sat \in BOOLEAN, e \in EntropyCfgs}

ImagRuns == RolloutRuns \cup EntropyRuns

PreCfgs ==
  {[BaseCfg EXCEPT !.obs_trans = o, !.reward_trans = r, !.discount = d] :
     o \in ObsTransforms \cup {"other"}, r \in RewardTransforms \cup {"other"},
     d \in {Frac(1, 2), Frac(1, 1)}}

Batches ==
  LET base == [image : {<<0, 255>>}, reward : {<<0, 2>>, <<1>>}, action : {<<0, 1>>}]
  IN  base \cup
      {[image |-> b.image, reward |-> b.reward, action |-> b.action, discount |-> d] :
         b \in base, d \in {<<Unit, Unit>>, <<Unit, 0>>}}

\* ------------------------------------------------------ specifications
\* the state ImagBehavior.__init__ leaves (lines 294-297, 315-316)
InitBehavior(c) ==
  /\ cfg = c
  /\ value \in ParamSet
  /\ slow_value = IF SlowEnabled(c) THEN value ELSE Absent
  /\ updates = IF SlowEnabled(c) THEN 0 ELSE Absent
  /\ reward_ema = IF c.reward_EMA THEN 0 ELSE Absent
  /\ entry = [updates |-> updates, slow_value |-> slow_value, reward_ema |-> reward_ema]
  /\ calls = 0
  /\ returned = 0
  /\ pc = "idle"
  /\ err = "none"
  /\ repeats = FALSE
  /\ start = None
  /\ imag_feat = None /\ imag_state = None /\ imag_action = None
  /\ reward = None /\ actor_ent = None /\ state_ent = None
  /\ target = None /\ weights = None /\ actor_target_in = None
  /\ norm_target = None /\ tvalue = None /\ tdiscount = None
  /\ metrics = <<>>
  /\ ema_calls = 0 /\ slow_calls = 0
  /\ obs = None

Init ==
  /\ \E r \in CarriedRuns : InitBehavior(r.cfg) /\ loop = r.loop
  /\ batch = None

InitImag ==
  /\ \E r \in ImagRuns : InitBehavior(r.cfg) /\ loop = r.loop
  /\ batch = None

InitPre ==
  /\ \E c \in PreCfgs : InitBehavior(c)
  /\ loop = [steps |-> MaxCalls, starts |-> {}]
  /\ batch \in Batches

Next == TrainNext

Spec == Init /\ [][Next]_vars
SpecImag == InitImag /\ [][Next]_vars
SpecPre == InitPre /\ [][PreNext]_vars


\* ================================================================ claims
\* positions of _train after the slow-target maintenance and before the
\* critic's optimizer step has run
BeforeValueOpt ==
  pc \in {"imagine", "reward", "target_actor", "actor_loss", "target_value",
          "value_loss", "actor_opt", "value_opt"}

\* C1 as stated: with slow targets enabled and slow_target_fraction = 1,
\* after exactly slow_target_update training calls that all returned, the
\* slow critic parameters equal the live critic parameters.
C1_EqualAfterUpdateCalls ==
  (/\ SlowEnabled(cfg)
   /\ cfg.slow_target_fraction.n = cfg.slow_target_fraction.d
   /\ pc = "idle"
   /\ calls = cfg.slow_target_update
   /\ returned = cfg.slow_target_update)
  => slow_value = value

\* C1 amended: with slow targets enabled and slow_target_fraction = 1, in a
\* mixing call (the counter at its start is a multiple of slow_target_update)
\* the slow critic parameters equal the live critic parameters from the
\* maintenance step until the critic's optimizer step of that call.
C1_EqualFromMixToValueOpt ==
  (/\ SlowEnabled(cfg)
   /\ cfg.slow_target_fraction.n = cfg.slow_target_fraction.d
   /\ BeforeValueOpt
   /\ (updates - 1) % cfg.slow_target_update = 0)
  => slow_value = value

\* a third call that mixes with period 2 after the live critic has moved
C1_Witness ==
  /\ cfg.slow_value_target
  /\ cfg.slow_target_fraction.n = cfg.slow_target_fraction.d
  /\ cfg.slow_target_update = 2
  /\ updates = 3
  /\ pc = "value_opt"
  /\ value = Unit
  /\ slow_value = value

\* C2: with slow targets enabled the counter grows by exactly 1 at the start
\* of every call and at no other step, and the slow parameters become
\* mix*live + (1-mix)*slow exactly when the counter at the start of the call
\* is a multiple of slow_target_update; with slow targets disabled the step
\* changes neither.
C2_CounterAndMix ==
  [][IF pc = "idle" /\ pc' # "idle"
     THEN IF cfg.slow_value_target \/ cfg.slow_actor_target
          THEN /\ updates' = updates + 1
               /\ slow_value' =
                    IF updates % cfg.slow_target_update = 0
                    THEN LET f == cfg.slow_target_fraction
                         IN  (f.n * value) \div f.d + ((f.d - f.n) * slow_value) \div f.d
                    ELSE slow_value
          ELSE updates' = updates /\ slow_value' = slow_value
     ELSE updates' = updates]_vars

\* the second mix of a run with period 2 and fraction 1/2, after a call that
\* did not mix: the slow parameters are half way between two live values
C2_Witness ==
  /\ cfg.slow_target_update = 2
  /\ cfg.slow_target_fraction = Frac(1, 2)
  /\ updates = 3
  /\ pc = "imagine"
  /\ value = Unit
  /\ slow_value = Unit \div 2

\* C3: a step of a training call changes the slow critic parameters only if
\* it is the slow-target maintenance of a mixing call; the rollout, the target
\* and loss computations and both optimizer steps leave them unchanged.
C3_SlowWrittenOnlyByMix ==
  [][slow_value' # slow_value
       => /\ pc = "idle"
          /\ cfg.slow_value_target \/ cfg.slow_actor_target
          /\ updates % cfg.slow_target_update = 0]_vars

\* a call at its end: the critic's optimizer step moved the live critic and
\* the slow critic kept the value of the mix
C3_Witness ==
  /\ pc = "done"
  /\ cfg.slow_value_target
  /\ cfg.slow_target_fraction = Frac(1, 1)
  /\ updates = 1
  /\ slow_value # value

\* C4: in every training call that completes, the reward-EMA state is updated
\* once when reward_EMA is enabled (never otherwise) and the slow-target
\* counter is written once when slow targets are enabled (never otherwise), so
\* that the counter equals the number of calls begun; this holds for every
\* pair of slow_actor_target and slow_value_target.
C4_OncePerCall ==
  /\ pc = "done" =>
       /\ ema_calls = (IF cfg.reward_EMA THEN 1 ELSE 0)
       /\ slow_calls = (IF cfg.slow_value_target \/ cfg.slow_actor_target THEN 1 ELSE 0)
  /\ (cfg.slow_value_target \/ cfg.slow_actor_target) => updates = calls
  /\ ema_calls <= 1 /\ slow_calls <= 1

\* a completed second call that computed the target twice and moved the scale
C4_Witness ==
  /\ pc = "done"
  /\ cfg.reward_EMA
  /\ cfg.slow_value_target # cfg.slow_actor_target
  /\ calls = 2
  /\ ema_calls = 1
  /\ slow_calls = 1
  /\ updates = 2
  /\ reward_ema > 0

\* the flattened start state of the current call
FlatStart == [k \in DOMAIN start |-> flatten(start[k])]

\* entries 1..len of the rollout are aligned: the feature is the feature of the
\* state, the action is in the support of the actor at that feature, and the
\* next state (where there is one) is a prior step of the state under the action
AlignedTo(len) ==
  \A t \in 1..len : \A n \in 1..Len(imag_feat[t]) :
    /\ imag_feat[t][n] = <<imag_state.stoch[t][n], imag_state.deter[t][n]>>
    /\ imag_action[t][n] \in ActorSupport(imag_feat[t][n])
    /\ t < len =>
         \E eps \in {0, 1} :
           /\ imag_state.deter[t + 1][n] =
                (imag_state.deter[t][n] + imag_state.stoch[t][n] + imag_action[t][n] + 1) % 3
           /\ imag_state.stoch[t + 1][n] =
                IF cfg.imag_sample THEN eps ELSE imag_state.deter[t + 1][n] % 2

\* C5 as stated: the rollout returns feature, state and action sequences of
\* horizon+1 entries each, states[0] is the flattened initial state and the
\* entries are aligned at every index.
C5_HorizonPlusOneEntries ==
  pc = "reward" =>
    /\ Len(imag_feat) = cfg.imag_horizon + 1
    /\ Len(imag_action) = cfg.imag_horizon + 1
    /\ Len(imag_state.stoch) = cfg.imag_horizon + 1
    /\ Len(imag_state.deter) = cfg.imag_horizon + 1
    /\ imag_state.stoch[1] = FlatStart.stoch
    /\ imag_state.deter[1] = FlatStart.deter
    /\ AlignedTo(cfg.imag_horizon + 1)

\* C5 amended: the rollout returns feature, state and action sequences of
\* horizon entries each (one per scan step), states[0] is the flattened
\* initial state and the entries are aligned at every index, states[t+1]
\* being the prior step of states[t] under actions[t] for t+1 < horizon.
C5_HorizonEntriesAligned ==
  pc = "reward" =>
    /\ Len(imag_feat) = cfg.imag_horizon
    /\ Len(imag_action) = cfg.imag_horizon
    /\ Len(imag_state.stoch) = cfg.imag_horizon
    /\ Len(imag_state.deter) = cfg.imag_horizon
    /\ imag_state.stoch[1] = FlatStart.stoch
    /\ imag_state.deter[1] = FlatStart.deter
    /\ AlignedTo(cfg.imag_horizon)

\* a three-step rollout of a two-element batch whose states move
C5_Witness ==
  /\ pc = "reward"
  /\ cfg.imag_horizon = 3
  /\ Len(imag_feat) = 3
  /\ Len(imag_feat[1]) = 2
  /\ imag_state.deter[1] = <<0, 2>>
  /\ imag_state.deter[2] # imag_state.deter[1]
  /\ imag_state.deter[3] # imag_state.deter[2]
  /\ imag_action[1] # imag_action[2]

\* positions of _train at which target holds the result of _compute_target
TargetComputed == pc \in {"actor_loss", "target_value", "value_loss"}

\* entry t of the target obeys the recursion, with the value after the last
\* reward as value[t+1] and return[t+1] of the last entry
RecursionAt(t, n) ==
  LET T == Len(target)
      lam == cfg.discount_lambda
      d == tdiscount[t][n]
      next_value == tvalue[t + 1][n]
      next_return == IF t = T THEN tvalue[T + 1][n] ELSE target[t + 1][n]
  IN  (target[t][n] - reward[t][n]) * (lam.d * d.d)
        = d.n * ((lam.d - lam.n) * next_value + lam.n * next_return)

\* C6 as stated: the target has horizon entries that satisfy the recursion
\* return[t] = reward[t] + discount[t]*((1-lambda)*value[t+1] + lambda*return[t+1])
\* with the final value as bootstrap; with imag_horizon = 1 it is the single
\* entry reward[0] + discount[0]*bootstrap.
C6_TargetOfHorizonEntries ==
  TargetComputed =>
    /\ Len(target) = cfg.imag_horizon
    /\ \A t \in 1..Len(target) : \A n \in 1..Len(target[t]) : RecursionAt(t, n)

\* C6 amended: the target has imag_horizon - 1 entries (one per reward except
\* the last) that satisfy the recursion with the value of the last rollout
\* entry as bootstrap; with imag_horizon = 2 it is the single entry
\* reward[0] + discount[0]*bootstrap, with imag_horizon = 1 it has no entry.
C6_TargetOfHorizonMinusOneEntries ==
  TargetComputed =>
    /\ Len(target) = cfg.imag_horizon - 1
    /\ Len(tvalue) = cfg.imag_horizon
    /\ \A t \in 1..Len(target) : \A n \in 1..Len(target[t]) : RecursionAt(t, n)
    /\ cfg.imag_horizon = 2 =>
         \A n \in 1..Len(target[1]) :
           target[1][n] * tdiscount[1][n].d
             = reward[1][n] * tdiscount[1][n].d + tdiscount[1][n].n * tvalue[2][n]

\* a two-entry target with lambda 1/2 and discount 1/2 in which the return of
\* the second entry shows in the first
C6_Witness ==
  /\ pc = "actor_loss"
  /\ cfg.imag_horizon = 3
  /\ cfg.discount_lambda = Frac(1, 2)
  /\ ~cfg.pred_discount /\ cfg.discount = Frac(1, 2)
  /\ Len(target) = 2
  /\ target[2][1] # tvalue[3][1]
  /\ target[1][1] # reward[1][1] + (tvalue[2][1] \div 2)
  /\ reward[1][1] # reward[2][1]

\* C7: the weights a call returns have imag_horizon entries, weight[0] = 1,
\* weight[t] is the product of discount[0..t-1] (weight[t-1] times
\* discount[t-1]), and with a constant discount in (0,1) they do not increase
\* along the horizon.
C7_Weights ==
  pc = "done" =>
    /\ Len(weights) = cfg.imag_horizon
    /\ \A n \in 1..Len(weights[1]) : weights[1][n] = Unit
    /\ \A t \in 1..(Len(weights) - 1) : \A n \in 1..Len(weights[t]) :
         weights[t + 1][n] * tdiscount[t][n].d = weights[t][n] * tdiscount[t][n].n
    /\ (~cfg.pred_discount /\ 0 < cfg.discount.n /\ cfg.discount.n < cfg.discount.d)
         => \A t \in 1..(Len(weights) - 1) : \A n \in 1..Len(weights[t]) :
              weights[t + 1][n] <= weights[t][n]

\* the weights 1, 1/2, 1/4 of a three-step rollout with discount 1/2
C7_Witness ==
  /\ pc = "done"
  /\ cfg.imag_horizon = 3
  /\ ~cfg.pred_discount /\ cfg.discount = Frac(1, 2)
  /\ weights = <<<<Unit>>, <<Unit \div 2>>, <<Unit \div 4>>>>

\* C8: preprocess fails with a "not implemented" condition and returns no
\* batch whenever obs_trans or reward_trans is not a recognised name, and does
\* not fail for a recognised pair of names.
C8_NotImplementedForUnknownTransform ==
  calls > 0 =>
    IF \/ cfg.obs_trans \notin {"normalize", "identity", "symlog"}
       \/ cfg.reward_trans \notin {"tanh", "identity", "symlog"}
    THEN err = "NotImplementedError" /\ obs = None
    ELSE err = "none" /\ obs # None

\* C9: a training call with repeats set fails fast with a "not implemented"
\* signal: it ends with that exception, returns no rollout and reaches neither
\* the imagination step, a loss computation nor an optimizer step.
C9_NotImplementedForRepeats ==
  /\ (pc = "idle" /\ calls > 0 /\ repeats) =>
       /\ err = "NotImplementedError"
       /\ imag_feat = None /\ imag_state = None /\ imag_action = None
  /\ repeats => pc \in {"idle", "imagine"}

\* the imagined reward of entry (t, n) before any bonus (lines 337-340)
ImaginedReward(t, n) ==
  LET r == Objective(cfg, imag_feat[t][n], imag_state.stoch[t][n],
                     imag_state.deter[t][n], imag_action[t][n])
  IN  IF cfg.reward_trans = "symlog" THEN symexp(r) ELSE r

\* the bonus of entry (t, n) in future-entropy mode
EntropyBonus(t, n) ==
  (IF cfg.actor_entropy > 0 THEN cfg.actor_entropy * actor_ent[t][n] ELSE 0)
  + (IF cfg.actor_state_entropy > 0 THEN cfg.actor_state_entropy * state_ent[t][n] ELSE 0)

\* C10: in future-entropy mode the bonus is added to each imagined reward
\* exactly once per call, also when the target is computed twice: the reward
\* the critic's target is computed from and the reward of the metrics are the
\* imagined reward plus one bonus.
C10_BonusAddedOnce ==
  (cfg.future_entropy /\ pc \in {"value_loss", "actor_opt", "value_opt", "done"}) =>
    /\ \A t \in 1..Len(reward) : \A n \in 1..Len(reward[t]) :
         reward[t][n] = ImaginedReward(t, n) + EntropyBonus(t, n)
    /\ pc # "value_loss" =>
         metrics["reward_mean"].n * Len(reward) * Len(reward[1])
           = metrics["reward_mean"].d *
               SumSeq(Flatten([t \in 1..Len(reward) |-> [n \in 1..Len(reward[t]) |->
                         ImaginedReward(t, n) + EntropyBonus(t, n)]]))

\* C11: preprocess leaves the caller's batch unchanged, so that every call on
\* the same batch object (by the training step or by video_pred) returns the
\* discount of that batch scaled by config.discount exactly once.
C11_CallerBatchUnchanged ==
  [][(calls' = calls + 1 /\ err' = "none" /\ "discount" \in DOMAIN batch) =>
       /\ batch' = batch
       /\ obs'["discount"] =
            [i \in 1..Len(batch["discount"]) |->
               <<(batch["discount"][i] * cfg.discount.n) \div cfg.discount.d>>]]_vars

\* C12: a training call that fails with a configuration error (repeats set,
\* or an unrecognised imag_gradient mode) leaves the state carried across
\* calls as it found it: the slow-target counter, the slow critic parameters
\* and the reward-EMA scale are the same after the call as before it.
C12_FailedCallKeepsCarriedState ==
  (/\ pc = "idle"
   /\ calls > 0
   /\ err # "none"
   /\ repeats \/ cfg.imag_gradient \notin {"dynamics", "reinforce", "both"})
  => /\ updates = entry.updates
     /\ slow_value = entry.slow_value
     /\ reward_ema = entry.reward_ema

====
